---- MODULE Spec2Model ----
(***************************************************************************)
(* A model of src/app.py: a Flask proxy in front of the GA4 reporting API  *)
(* with a process-wide TTL cache (get_cached / set_cached), five endpoint  *)
(* handlers that look the cache up, fetch upstream on a miss, normalise    *)
(* the rows and store the payload.                                         *)
(*                                                                         *)
(* Conventions.                                                            *)
(*  - Python None is the record None; every other Python value that is     *)
(*    compared with it is a record too (entries, payloads).                *)
(*  - time.time() is the integer clock `now` (seconds).  fetchedAt, which  *)
(*    the code formats with second precision, is carried as that second.   *)
(*  - cache keys and date parameters are TLA+ strings (the f-strings are   *)
(*    string concatenations); texts that the code parses (metric values,   *)
(*    the limit parameter) are sequences of one-character strings.         *)
(*  - a Python sequence that may be empty (metric_values, a query          *)
(*    parameter that may be missing) is a TLA+ sequence; <<>> is falsy.    *)
(***************************************************************************)
EXTENDS Integers, Sequences, FiniteSets, TLC

VARIABLES
    now,        \* time.time()
    ticks,      \* how many times the clock has advanced (bounds the run)
    cache,      \* the module-level dict `cache`, a set of entries
    CACHE_TTL,  \* int(os.getenv("GA4_CACHE_TTL_SEC", "5")), fixed at import
    op,         \* CacheSpec: the last direct call of get_cached/set_cached
    lastSet,    \* history: per key, the last set_cached that assigned: its
                \* arguments and `at`, the clock it read for the expiry
    pc,         \* per request thread: where its handler stands
    req,        \* per request thread: endpoint and query parameters
    cache_key,  \* per request thread: the handler's local cache_key
    entry,      \* per request thread: get_cached's local `entry`
    resp,       \* per request thread: the upstream response `resp`
    response,   \* per request thread: what the handler returned
    out,        \* per request thread: the handler's local payload `out`
    set_call,   \* per thread: set_cached's arguments and the clock it read
    calls,      \* per request thread: upstream calls made by this request
    effects,    \* per request thread: what this request did to the dict
    started,    \* how many requests have been started (bounds the run)
    rawRows,    \* NormSpec: resp.rows, the raw rows handed to a normaliser
    normOut     \* NormSpec: the endpoint applied and the payload `out`

cacheVars  == <<now, ticks, cache, CACHE_TTL, op, lastSet>>
threadVars == <<pc, req, cache_key, entry, resp, out, set_call, response,
                calls, effects, started>>
normVars   == <<rawRows, normOut>>
vars       == <<now, ticks, cache, CACHE_TTL, op, lastSet,
                pc, req, cache_key, entry, resp, out, set_call, response,
                calls, effects, started, rawRows, normOut>>

(***************************************************************************)
(* Bounds of the model and constants of the program.                       *)
(***************************************************************************)
MaxTicks == 2

MaxTtl == 2

MaxRequests == 2

MaxLen == 4

MaxRows == 3

NumThreads == 2

ManyRows == 60

MaxCalls == 3

DEFAULT_CACHE_TTL == 5

HIST_TTL == 30

None == [none |-> TRUE]

\* The clock advances by a second, or by one of the two TTLs at once.
TickSteps(default) == {1, default, HIST_TTL}

(***************************************************************************)
(* The dict `cache`: { key: (expiry_ts, value) }, as a set of entries.     *)
(***************************************************************************)
DictGet(c, k) ==
    IF \E e \in c : e.key = k THEN CHOOSE e \in c : e.key = k ELSE None

DictSet(c, k, expiry, value) ==
    {e \in c : e.key # k} \cup {[key |-> k, expiry |-> expiry, value |-> value]}

DictPop(c, k) == {e \in c : e.key # k}

\* Mutant: the comparison is turned round (< for >).
IsStale_Inverted(e, t) == t < e.expiry

\* Mutant: an entry is stale from its expiry on (>= for >).
IsStale_AtExpiry(e, t) == t >= e.expiry

\* get_cached, line 46: the entry read is stale at time t.
IsStale(e, t) == t > e.expiry

\* Mutant: the expiry test is left out.
GetCachedValue_NoExpiry(e, t) ==
    IF e = None THEN None ELSE e.value

\* Mutant: a hit restamps the payload with the time of the read.
GetCachedValue_Restamp(e, t) ==
    IF e = None THEN None
    ELSE IF IsStale(e, t) THEN None
    ELSE [e.value EXCEPT !.fetchedAt = t]

\* get_cached, lines 43-49: what it returns for the entry it read.
GetCachedValue(e, t) ==
    IF e = None THEN None
    ELSE IF IsStale(e, t) THEN None
    ELSE e.value

\* Mutant: a read of a live entry pushes its expiry on (a sliding ttl).
GetCachedCache_Refresh(c, k, e, t) ==
    IF e = None THEN c
    ELSE IF IsStale(e, t) THEN DictPop(c, k)
    ELSE DictSet(c, k, e.expiry + 1, e.value)

\* Mutant: a lookup sweeps every stale entry, not only the one it read.
GetCachedCache_Sweep(c, k, e, t) ==
    IF e # None /\ IsStale(e, t) THEN {x \in c : ~IsStale(x, t)} ELSE c

\* get_cached, lines 43-48: the dict after it (a stale entry is popped).
GetCachedCache(c, k, e, t) ==
    IF e # None /\ IsStale(e, t) THEN DictPop(c, k) ELSE c

\* Mutant: the expiry is the ttl itself, the clock is left out.
SetCachedCache_NoClock(c, k, value, ttl, t) == DictSet(c, k, ttl, value)

\* Mutant: an entry that is still live is kept (setdefault for assignment).
SetCachedCache_KeepLive(c, k, value, ttl, t) ==
    IF DictGet(c, k) # None /\ ~IsStale(DictGet(c, k), t)
    THEN c ELSE DictSet(c, k, t + ttl, value)

\* Mutant: a set on a key that has an entry writes the value only and leaves
\* the expiry that was there.
SetCachedCache_KeepExpiry(c, k, value, ttl, t) ==
    IF DictGet(c, k) # None
    THEN DictSet(c, k, DictGet(c, k).expiry, value)
    ELSE DictSet(c, k, t + ttl, value)

\* set_cached, line 52.
SetCachedCache(c, k, value, ttl, t) == DictSet(c, k, t + ttl, value)

(***************************************************************************)
(* Python's float(text), int(float) and int(text) on the texts the model   *)
(* feeds them: an optional sign, decimal digits, at most one point, and    *)
(* characters that are none of these.  (No whitespace, underscore,         *)
(* exponent, "inf" or "nan" occurs in the model's inputs.)                 *)
(***************************************************************************)
Digits == {"0", "1", "2", "3", "4", "5", "6", "7", "8", "9"}

DigitVal(ch) ==
    CASE ch = "0" -> 0 [] ch = "1" -> 1 [] ch = "2" -> 2 [] ch = "3" -> 3
      [] ch = "4" -> 4 [] ch = "5" -> 5 [] ch = "6" -> 6 [] ch = "7" -> 7
      [] ch = "8" -> 8 [] ch = "9" -> 9

RECURSIVE DigitsVal(_)
DigitsVal(ds) ==
    IF ds = <<>> THEN 0
    ELSE 10 * DigitsVal(SubSeq(ds, 1, Len(ds) - 1)) + DigitVal(ds[Len(ds)])

RECURSIVE Pow10(_)
Pow10(n) == IF n = 0 THEN 1 ELSE 10 * Pow10(n - 1)

AllDigits(ds) == \A i \in 1..Len(ds) : ds[i] \in Digits

HasSign(s) == s # <<>> /\ s[1] \in {"+", "-"}

Unsigned(s) == IF HasSign(s) THEN Tail(s) ELSE s

ValueError == [raised |-> TRUE]

\* float(text): the value is (-1)^neg * mant / 10^scale, or ValueError.
PyFloat(s) ==
    LET b == Unsigned(s)
        dots == {i \in 1..Len(b) : b[i] = "."}
    IN  IF Cardinality(dots) > 1 THEN ValueError
        ELSE LET d  == IF dots = {} THEN Len(b) + 1 ELSE CHOOSE i \in dots : TRUE
                 ip == SubSeq(b, 1, d - 1)
                 fp == SubSeq(b, d + 1, Len(b))
             IN  IF AllDigits(ip) /\ AllDigits(fp) /\ Len(ip) + Len(fp) > 0
                 THEN [raised |-> FALSE, neg |-> (s[1] = "-"),
                       mant |-> DigitsVal(ip \o fp), scale |-> Len(fp)]
                 ELSE ValueError

\* int(x) of a finite float: truncation towards zero.
PyIntOfFloat(f) ==
    IF f.neg THEN 0 - (f.mant \div Pow10(f.scale))
    ELSE f.mant \div Pow10(f.scale)

\* int(text): an optional sign and decimal digits, or ValueError.
PyIntOfText(s) ==
    LET b == Unsigned(s) IN
    IF b # <<>> /\ AllDigits(b)
    THEN [raised |-> FALSE,
          val |-> IF s[1] = "-" THEN 0 - DigitsVal(b) ELSE DigitsVal(b)]
    ELSE ValueError

(***************************************************************************)
(* The normalisers: the part of each handler between the upstream call     *)
(* and set_cached.  A raw row is [dimension_values, metric_values]; a      *)
(* dimension value is a string, a metric value a text.                     *)
(***************************************************************************)
\* Mutant: int(value) for int(float(value)).
CoerceMetric_IntOnly(metric_values) ==
    IF metric_values = <<>> THEN 0
    ELSE LET i == PyIntOfText(metric_values[1]) IN
         IF i.raised THEN 0 ELSE i.val

\* value = 0; if r.metric_values: try: value = int(float(...)) except: 0
CoerceMetric(metric_values) ==
    IF metric_values = <<>> THEN 0
    ELSE LET f == PyFloat(metric_values[1]) IN
         IF f.raised THEN 0 ELSE PyIntOfFloat(f)

\* Mutant: the length test is off by one (> i + 1 for > i).
CoerceDimension_OffByOne(dimension_values, i) ==
    IF Len(dimension_values) > i + 1 THEN dimension_values[i + 1] ELSE "(unknown)"

\* r.dimension_values[i].value if len(r.dimension_values) > i else "(unknown)"
CoerceDimension(dimension_values, i) ==
    IF Len(dimension_values) > i THEN dimension_values[i + 1] ELSE "(unknown)"

\* realtime_active, lines 83-95: total += int(float(...)) over the rows.
RECURSIVE SumActive(_)
SumActive(rows) ==
    IF rows = <<>> THEN 0
    ELSE SumActive(SubSeq(rows, 1, Len(rows) - 1))
         + CoerceMetric(rows[Len(rows)].metric_values)

\* Mutant: the total is assigned, not accumulated (= for +=).
realtime_active_out_Assign(rows, t) ==
    [totalActive |-> IF rows = <<>> THEN 0
                     ELSE CoerceMetric(rows[Len(rows)].metric_values),
     fetchedAt |-> t]

\* realtime_active, lines 83-97.
realtime_active_out(rows, t) ==
    [totalActive |-> SumActive(rows), fetchedAt |-> t]

realtime_pages_out(rows, t) ==
    [rows |-> [i \in 1..Len(rows) |->
                 [pageTitle |-> CoerceDimension(rows[i].dimension_values, 0),
                  activeUsers |-> CoerceMetric(rows[i].metric_values)]],
     fetchedAt |-> t]

\* Mutant: each row is put in front of the list (insert(0, ..) for append).
urls_report_out_Prepend(rows, t) ==
    LET rs == [i \in 1..Len(rows) |->
                 [pageLocation |->
                     CoerceDimension(rows[Len(rows) + 1 - i].dimension_values, 0),
                  screenPageViews |->
                     CoerceMetric(rows[Len(rows) + 1 - i].metric_values)]]
    IN  [rows |-> rs, rowCount |-> Len(rs), fetchedAt |-> t]

\* urls_report, lines 178-189.
urls_report_out(rows, t) ==
    LET rs == [i \in 1..Len(rows) |->
                 [pageLocation |-> CoerceDimension(rows[i].dimension_values, 0),
                  screenPageViews |-> CoerceMetric(rows[i].metric_values)]]
    IN  [rows |-> rs, rowCount |-> Len(rs), fetchedAt |-> t]

traffic_report_out(rows, t) ==
    LET rs == [i \in 1..Len(rows) |->
                 [source |-> CoerceDimension(rows[i].dimension_values, 0),
                  medium |-> CoerceDimension(rows[i].dimension_values, 1),
                  sessions |-> CoerceMetric(rows[i].metric_values)]]
    IN  [rows |-> rs, rowCount |-> Len(rs), fetchedAt |-> t]

top_countries_out(rows, t) ==
    [rows |-> [i \in 1..Len(rows) |->
                 [country |-> CoerceDimension(rows[i].dimension_values, 0),
                  activeUsers |-> CoerceMetric(rows[i].metric_values)]],
     fetchedAt |-> t]

Normalize(endpoint, rows, t) ==
    CASE endpoint = "realtime-active" -> realtime_active_out(rows, t)
      [] endpoint = "realtime-pages"  -> realtime_pages_out(rows, t)
      [] endpoint = "urls"            -> urls_report_out(rows, t)
      [] endpoint = "traffic"         -> traffic_report_out(rows, t)
      [] endpoint = "top-countries"   -> top_countries_out(rows, t)

(***************************************************************************)
(* CacheSpec: get_cached and set_cached called directly, one call at a     *)
(* time, with keys, values and ttls drawn from small sets.                 *)
(***************************************************************************)
CacheSpecKeys == {"realtime-active", "urls:7daysAgo:today"}

CacheSpecValues ==
    {[totalActive |-> 3, fetchedAt |-> 0], [rows |-> <<>>, fetchedAt |-> 0]}

CacheSpecTtls == 1..MaxTtl

Threads == 1..NumThreads

ThreadsIdle ==
    /\ pc = [t \in Threads |-> "idle"]
    /\ req = [t \in Threads |-> None]
    /\ cache_key = [t \in Threads |-> ""]
    /\ entry = [t \in Threads |-> None]
    /\ resp = [t \in Threads |-> None]
    /\ out = [t \in Threads |-> None]
    /\ set_call = [t \in Threads |-> None]
    /\ response = [t \in Threads |-> None]
    /\ calls = [t \in Threads |-> 0]
    /\ effects = [t \in Threads |-> {}]
    /\ started = 0

NormIdle ==
    /\ rawRows = <<>>
    /\ normOut = None

CacheInit ==
    /\ now = 0
    /\ ticks = 0
    /\ cache = {}
    /\ CACHE_TTL = DEFAULT_CACHE_TTL
    /\ op = [name |-> "none"]
    /\ lastSet = [k \in CacheSpecKeys |-> None]
    /\ ThreadsIdle
    /\ NormIdle

Tick ==
    /\ ticks < MaxTicks
    /\ \E d \in TickSteps(CACHE_TTL) : now' = now + d
    /\ ticks' = ticks + 1
    /\ UNCHANGED <<cache, CACHE_TTL, op, lastSet>>
    /\ UNCHANGED threadVars
    /\ UNCHANGED normVars

get_cached(key) ==
    LET e == DictGet(cache, key) IN
    /\ op' = [name |-> "get", key |-> key, at |-> now,
              ret |-> GetCachedValue(e, now)]
    /\ cache' = GetCachedCache(cache, key, e, now)
    /\ UNCHANGED <<now, ticks, CACHE_TTL, lastSet>>
    /\ UNCHANGED threadVars
    /\ UNCHANGED normVars

set_cached(key, value, ttl) ==
    /\ op' = [name |-> "set", key |-> key, at |-> now,
              value |-> value, ttl |-> ttl, prior |-> DictGet(cache, key)]
    /\ cache' = SetCachedCache(cache, key, value, ttl, now)
    /\ lastSet' = [lastSet EXCEPT ![key] = [value |-> value, ttl |-> ttl, at |-> now]]
    /\ UNCHANGED <<now, ticks, CACHE_TTL>>
    /\ UNCHANGED threadVars
    /\ UNCHANGED normVars

CallGet == \E k \in CacheSpecKeys : get_cached(k)

CallSet ==
    \E k \in CacheSpecKeys, v \in CacheSpecValues, ttl \in CacheSpecTtls :
        set_cached(k, v, ttl)

CacheNext == CallGet \/ CallSet \/ Tick

CacheSpec == CacheInit /\ [][CacheNext]_vars

(***************************************************************************)
(* Claims about the cache, checked under CacheSpec.                        *)
(***************************************************************************)
\* A step that is a direct call of get_cached / set_cached.
IsGetStep == op' # op /\ op'.name = "get"

IsSetStep == op' # op /\ op'.name = "set"

EntriesOf(c, k) == {e \in c : e.key = k}

\* C1 (as stated): after set_cached(key, value, T) at time s with no later
\* set on the key, a get at elapsed time < T returns the value and a get at
\* elapsed time >= T, exactly T included, returns absent.
C1_ExpiryAtTtl ==
    (op.name = "get" /\ lastSet[op.key] # None) =>
        LET ls == lastSet[op.key]
            elapsed == op.at - ls.at
        IN  /\ (elapsed < ls.ttl => op.ret = ls.value)
            /\ (elapsed >= ls.ttl => op.ret = None)

\* C1 (amended): after set_cached(key, value, T) at time s with no later set
\* on the key, a get at elapsed time <= T (exactly T included) returns the
\* stored value and a get at elapsed time > T returns absent; a later set
\* under the same key is governed by the same rule with its own value and ttl.
C1_ExpiryAfterTtl ==
    (op.name = "get" /\ lastSet[op.key] # None) =>
        LET ls == lastSet[op.key]
            elapsed == op.at - ls.at
        IN  /\ (elapsed <= ls.ttl => op.ret = ls.value)
            /\ (elapsed > ls.ttl => op.ret = None)

\* C1 witness: a get exactly T > 0 after the set returned the stored value.
C1_Witness ==
    /\ op.name = "get"
    /\ lastSet[op.key] # None
    /\ lastSet[op.key].ttl > 0
    /\ op.at - lastSet[op.key].at = lastSet[op.key].ttl
    /\ op.ret = lastSet[op.key].value

\* C2: get_cached(key) returns absent if and only if the dict holds no entry
\* for key or the entry's expiry is strictly before the time of the call; in
\* every other case (now = expiry included) it returns the value of the most
\* recent set on the key.
C2_GetAbsentIff ==
    [][IsGetStep =>
        LET es == EntriesOf(cache, op'.key) IN
        /\ (op'.ret = None) <=> (es = {} \/ \E e \in es : e.expiry < now)
        /\ (op'.ret # None =>
               /\ lastSet[op'.key] # None
               /\ op'.ret = lastSet[op'.key].value)]_vars

\* C2 witness: a get at the very second of the expiry returned the value.
C2_Witness ==
    /\ op.name = "get"
    /\ op.ret # None
    /\ op.at = now
    /\ \E e \in cache : e.key = op.key /\ e.expiry = now /\ e.value = op.ret

\* C8: set_cached(key, value, ttl) leaves exactly one entry for key, holding
\* value with expiry = time of the call + ttl, whatever entry (live, expired
\* or none) was there, and leaves the entries of every other key as they were.
C8_SetOverwrites ==
    [][IsSetStep =>
        /\ EntriesOf(cache', op'.key) =
              {[key |-> op'.key, expiry |-> now + op'.ttl, value |-> op'.value]}
        /\ \A k \in CacheSpecKeys \ {op'.key} :
              EntriesOf(cache', k) = EntriesOf(cache, k)]_vars

\* C8 witness: a set has replaced a live entry holding another value, with
\* an entry of another key in the dict.
C8_Witness ==
    /\ op.name = "set"
    /\ op.prior # None
    /\ op.prior.expiry >= op.at
    /\ op.prior.value # op.value
    /\ op.prior.expiry # op.at + op.ttl
    /\ \E e \in cache : e.key # op.key
    /\ \E e \in cache : e.key = op.key /\ e.value = op.value

UniqueKeys == \A e1, e2 \in cache : e1.key = e2.key => e1 = e2

\* C9: the dict never holds two entries for one key; a get_cached past the
\* entry's expiry removes that entry and returns absent; an entry leaves the
\* dict only by such a get on its own key or by a set on its own key, so a
\* get or set on one key never removes or alters an entry of another key.
C9_LazyExpiry ==
    /\ []UniqueKeys
    /\ [][/\ IsGetStep =>
              \A e \in EntriesOf(cache, op'.key) :
                  now > e.expiry =>
                      (op'.ret = None /\ EntriesOf(cache', op'.key) = {})
          /\ \A e \in cache \ cache' :
                  /\ op' # op
                  /\ op'.key = e.key
                  /\ \/ op'.name = "set"
                     \/ op'.name = "get" /\ now > e.expiry]_vars

\* C9 witness: a get found its entry expired and removed it, while an
\* expired entry of another key stays in the dict.
C9_Witness ==
    /\ op.name = "get"
    /\ op.ret = None
    /\ lastSet[op.key] # None
    /\ EntriesOf(cache, op.key) = {}
    /\ \E e \in cache : e.key # op.key /\ now > e.expiry

(***************************************************************************)
(* The endpoint handlers.  A request is an endpoint and its query          *)
(* arguments; an argument is <<>> when the caller left it out and          *)
(* <<value>> otherwise.                                                    *)
(***************************************************************************)
\* request.args.get(name, default)
ArgsGet(arg, default) == IF arg = <<>> THEN default ELSE arg[1]

StartDate(r) == ArgsGet(r.args.start_date, "7daysAgo")

EndDate(r) == ArgsGet(r.args.end_date, "today")

\* int(request.args.get("limit", "100")), line 206
Limit(r) == PyIntOfText(ArgsGet(r.args.limit, <<"1", "0", "0">>))

\* Mutant: top_countries, copied from realtime_pages, keeps its cache key.
CacheKey_Copied(r) ==
    CASE r.endpoint = "realtime-active" -> "realtime-active"
      [] r.endpoint = "realtime-pages"  -> "realtime-pages"
      [] r.endpoint = "top-countries"   -> "realtime-pages"
      [] r.endpoint = "urls" -> "urls:" \o StartDate(r) \o ":" \o EndDate(r)
      [] r.endpoint = "traffic" ->
            "traffic:" \o StartDate(r) \o ":" \o EndDate(r)
                \o ":" \o ToString(Limit(r).val)

\* cache_key, lines 69, 117, 161, 207, 247
CacheKey(r) ==
    CASE r.endpoint = "realtime-active" -> "realtime-active"
      [] r.endpoint = "realtime-pages"  -> "realtime-pages"
      [] r.endpoint = "top-countries"   -> "top-countries"
      [] r.endpoint = "urls" -> "urls:" \o StartDate(r) \o ":" \o EndDate(r)
      [] r.endpoint = "traffic" ->
            "traffic:" \o StartDate(r) \o ":" \o EndDate(r)
                \o ":" \o ToString(Limit(r).val)

\* The ttl each handler passes to set_cached (the default is CACHE_TTL).
TtlOf(endpoint, default) ==
    IF endpoint \in {"urls", "traffic"} THEN HIST_TTL ELSE default

\* Mutant: a payload counts as present only when it carries data (a total
\* that is not 0, a list of rows that is not empty).
Truthy_HasData(v) ==
    /\ v # None
    /\ IF "totalActive" \in DOMAIN v THEN v.totalActive # 0 ELSE v.rows # <<>>

\* `if cached:` on what get_cached returned: None and the empty dict are
\* falsy, every other dict is truthy.
Truthy(v) == DOMAIN v # {} /\ v # None

\* Mutant: the error payload carries a fixed text, not the error's message.
ErrorResponse_Generic(message) ==
    [status |-> 500, body |-> [error |-> "Internal Server Error"]]

\* return jsonify({"error": str(e)}), 500
ErrorResponse(message) == [status |-> 500, body |-> [error |-> message]]

\* return jsonify(payload)
OkResponse(payload) == [status |-> 200, body |-> payload]

\* An exception outside the handler's try: Flask answers 500 itself.
UnhandledResponse == [status |-> 500, body |-> [unhandled |-> "ValueError"]]

NoArgs == [start_date |-> <<>>, end_date |-> <<>>, limit |-> <<>>]

UrlsArgs ==
    {[start_date |-> <<"a:b">>, end_date |-> <<"c">>, limit |-> <<>>],
     [start_date |-> <<"a">>, end_date |-> <<"b:c">>, limit |-> <<>>]}

TrafficArgs ==
    {NoArgs,
     [NoArgs EXCEPT !.limit = <<<<"x">>>>]}

Requests ==
    {[endpoint |-> e, args |-> NoArgs] :
        e \in {"realtime-active", "realtime-pages", "top-countries"}}
    \cup {[endpoint |-> "urls", args |-> a] : a \in UrlsArgs}
    \cup {[endpoint |-> "traffic", args |-> a] : a \in TrafficArgs}

AllKeys == {CacheKey(r) : r \in {x \in Requests : ~Limit(x).raised}}

\* What the upstream report client answers: rows, or an error message.
UpstreamResults ==
    {<<>>,
     <<[dimension_values |-> <<"x">>, metric_values |-> <<<<"3", ".", "0">>>>]>>}

UpstreamErrors == {"429 quota exhausted"}

\* GA4_CACHE_TTL_SEC as the operator may set it: left alone, the ttl of the
\* historical endpoints, or twice that.
CacheTtlValues == {DEFAULT_CACHE_TTL, HIST_TTL, 2 * HIST_TTL}

Init ==
    /\ now = 0
    /\ ticks = 0
    /\ cache = {}
    /\ CACHE_TTL \in CacheTtlValues
    /\ op = [name |-> "none"]
    /\ lastSet = [k \in AllKeys |-> None]
    /\ ThreadsIdle
    /\ NormIdle

\* The handler up to `entry = cache.get(key)` (line 42).
Begin(t, r) ==
    /\ pc[t] = "idle"
    /\ started < MaxRequests
    /\ started' = started + 1
    /\ req' = [req EXCEPT ![t] = r]
    /\ IF r.endpoint = "traffic" /\ Limit(r).raised
       THEN /\ pc' = [pc EXCEPT ![t] = "done"]
            /\ response' = [response EXCEPT ![t] = UnhandledResponse]
            /\ UNCHANGED <<cache_key, entry>>
       ELSE /\ pc' = [pc EXCEPT ![t] = "lookup"]
            /\ cache_key' = [cache_key EXCEPT ![t] = CacheKey(r)]
            /\ entry' = [entry EXCEPT ![t] = DictGet(cache, CacheKey(r))]
            /\ UNCHANGED response
    /\ UNCHANGED <<set_call, resp, out, calls, effects>>
    /\ UNCHANGED cacheVars
    /\ UNCHANGED normVars

\* A request arrives and is handed to the first free thread.
Start(t) ==
    /\ \A u \in Threads : u < t => pc[u] # "idle"
    /\ \E r \in Requests : Begin(t, r)

\* The rest of get_cached (lines 43-49) and `if cached: return`.
Lookup(t) ==
    /\ pc[t] = "lookup"
    /\ LET cached == GetCachedValue(entry[t], now) IN
       /\ cache' = GetCachedCache(cache, cache_key[t], entry[t], now)
       /\ effects' = [effects EXCEPT ![t] =
                        IF cache' # cache THEN @ \cup {"pop"} ELSE @]
       /\ IF Truthy(cached)
          THEN /\ pc' = [pc EXCEPT ![t] = "done"]
               /\ response' = [response EXCEPT ![t] = OkResponse(cached)]
          ELSE /\ pc' = [pc EXCEPT ![t] = "fetch"]
               /\ UNCHANGED response
    /\ UNCHANGED <<now, ticks, CACHE_TTL, op, lastSet>>
    /\ UNCHANGED <<set_call, req, cache_key, entry, resp, out, calls, started>>
    /\ UNCHANGED normVars

\* client.run_report / run_realtime_report returns rows.
FetchOk(t) ==
    /\ pc[t] = "fetch"
    /\ \E rows \in UpstreamResults : resp' = [resp EXCEPT ![t] = [rows |-> rows]]
    /\ calls' = [calls EXCEPT ![t] = @ + 1]
    /\ pc' = [pc EXCEPT ![t] = "build"]
    /\ UNCHANGED <<set_call, req, cache_key, entry, out, response, effects, started>>
    /\ UNCHANGED cacheVars
    /\ UNCHANGED normVars

\* The upstream call raises; `except Exception as e` answers.
FetchFail(t) ==
    /\ pc[t] = "fetch"
    /\ \E message \in UpstreamErrors :
        /\ resp' = [resp EXCEPT ![t] = [raised |-> message]]
        /\ response' = [response EXCEPT ![t] = ErrorResponse(message)]
    /\ calls' = [calls EXCEPT ![t] = @ + 1]
    /\ pc' = [pc EXCEPT ![t] = "done"]
    /\ UNCHANGED <<set_call, req, cache_key, entry, out, effects, started>>
    /\ UNCHANGED cacheVars
    /\ UNCHANGED normVars

\* The rows are normalised and `out` is built, fetchedAt stamped.
Build(t) ==
    /\ pc[t] = "build"
    /\ out' = [out EXCEPT ![t] = Normalize(req[t].endpoint, resp[t].rows, now)]
    /\ pc' = [pc EXCEPT ![t] = "set"]
    /\ UNCHANGED <<set_call, req, cache_key, entry, resp, response, calls, effects, started>>
    /\ UNCHANGED cacheVars
    /\ UNCHANGED normVars

\* set_cached(cache_key, out[, ttl=30]) is entered and time.time() + ttl is
\* evaluated (line 52, right-hand side); nothing is stored yet.
StoreClock(t) ==
    /\ pc[t] = "set"
    /\ set_call' = [set_call EXCEPT ![t] =
                      [key |-> cache_key[t], value |-> out[t],
                       ttl |-> TtlOf(req[t].endpoint, CACHE_TTL), at |-> now]]
    /\ pc' = [pc EXCEPT ![t] = "store"]
    /\ UNCHANGED <<req, cache_key, entry, resp, out, response, calls, effects,
                   started>>
    /\ UNCHANGED cacheVars
    /\ UNCHANGED normVars

\* cache[key] = (expiry, value) (line 52, the assignment) and
\* return jsonify(out).
Store(t) ==
    /\ pc[t] = "store"
    /\ LET c == set_call[t] IN
       /\ cache' = SetCachedCache(cache, c.key, c.value, c.ttl, c.at)
       /\ lastSet' = [lastSet EXCEPT ![c.key] =
                        [value |-> c.value, ttl |-> c.ttl, at |-> c.at,
                         by |-> t, endpoint |-> req[t].endpoint]]
    /\ effects' = [effects EXCEPT ![t] = @ \cup {"set"}]
    /\ response' = [response EXCEPT ![t] = OkResponse(out[t])]
    /\ pc' = [pc EXCEPT ![t] = "done"]
    /\ UNCHANGED <<now, ticks, CACHE_TTL, op>>
    /\ UNCHANGED <<set_call, req, cache_key, entry, resp, out, calls, started>>
    /\ UNCHANGED normVars

\* The response has gone out; the thread is free for the next request.
Return(t) ==
    /\ pc[t] = "done"
    /\ pc' = [pc EXCEPT ![t] = "idle"]
    /\ req' = [req EXCEPT ![t] = None]
    /\ cache_key' = [cache_key EXCEPT ![t] = ""]
    /\ entry' = [entry EXCEPT ![t] = None]
    /\ resp' = [resp EXCEPT ![t] = None]
    /\ out' = [out EXCEPT ![t] = None]
    /\ set_call' = [set_call EXCEPT ![t] = None]
    /\ response' = [response EXCEPT ![t] = None]
    /\ calls' = [calls EXCEPT ![t] = 0]
    /\ effects' = [effects EXCEPT ![t] = {}]
    /\ UNCHANGED started
    /\ UNCHANGED cacheVars
    /\ UNCHANGED normVars

Next ==
    \/ \E t \in Threads : Start(t)
    \/ \E t \in Threads : Lookup(t)
    \/ \E t \in Threads : FetchOk(t)
    \/ \E t \in Threads : FetchFail(t)
    \/ \E t \in Threads : Build(t)
    \/ \E t \in Threads : StoreClock(t)
    \/ \E t \in Threads : Store(t)
    \/ \E t \in Threads : Return(t)
    \/ Tick

Spec == Init /\ [][Next]_vars

\* Requests handled one after another: a request starts only when no other
\* request is in progress.
SeqStart(t) ==
    /\ \A u \in Threads : pc[u] = "idle"
    /\ Start(t)

SeqNext ==
    \/ \E t \in Threads : SeqStart(t)
    \/ \E t \in Threads : Lookup(t)
    \/ \E t \in Threads : FetchOk(t)
    \/ \E t \in Threads : FetchFail(t)
    \/ \E t \in Threads : Build(t)
    \/ \E t \in Threads : StoreClock(t)
    \/ \E t \in Threads : Store(t)
    \/ \E t \in Threads : Return(t)
    \/ Tick

SeqSpec == Init /\ [][SeqNext]_vars

(***************************************************************************)
(* Claims about the handlers, checked under Spec (requests on concurrent   *)
(* threads) or SeqSpec (one request at a time).                            *)
(***************************************************************************)
\* A step in which thread t reads the dict for its key (line 42).
IsReadStep(t) == pc[t] = "idle" /\ pc'[t] = "lookup"

\* A step in which thread t's handler returns what get_cached gave it.
IsHitStep(t) == pc[t] = "lookup" /\ pc'[t] = "done"

\* A step in which thread t's upstream call ends, with rows or an error.
IsFetchStep(t) == pc[t] = "fetch" /\ pc'[t] \in {"build", "done"}

\* A step in which thread t's set_cached reads the clock for the expiry.
IsClockStep(t) == pc[t] = "set" /\ pc'[t] = "store"

\* A step in which thread t's set_cached assigns the entry.
IsStoreStep(t) == pc[t] = "store" /\ pc'[t] = "done"

\* Thread t's request is over and its upstream call raised.
UpstreamFailed(t) ==
    /\ pc[t] = "done"
    /\ resp[t] # None
    /\ "raised" \in DOMAIN resp[t]

\* Thread t's request is over and answered with a payload it computed.
Computed(t) ==
    /\ pc[t] = "done"
    /\ resp[t] # None
    /\ "rows" \in DOMAIN resp[t]

\* C3: on a cache hit, in every handler, the upstream client is not called,
\* the response is the payload that was stored under the key when the handler
\* read the dict, and the dict is left as it is: nothing is set and the
\* entry's expiry is not pushed on by the read.
C3_HitLeavesCacheAlone ==
    [][\A t \in Threads :
        /\ IsReadStep(t) =>
              \/ EntriesOf(cache, cache_key'[t]) = {} /\ entry'[t] = None
              \/ entry'[t] \in EntriesOf(cache, cache_key'[t])
        /\ IsHitStep(t) =>
              /\ entry[t] # None
              /\ response'[t] = [status |-> 200, body |-> entry[t].value]
              /\ calls[t] = 0 /\ calls'[t] = 0
              /\ cache' = cache
              /\ lastSet' = lastSet]_vars

\* C3 witness: a request of a historical endpoint was answered from the
\* dict, later than the payload was computed, without an upstream call, and
\* the entry it read is still in the dict.
C3_Witness ==
    \E t \in Threads :
        /\ pc[t] = "done"
        /\ req[t].endpoint = "urls"
        /\ calls[t] = 0
        /\ entry[t] # None
        /\ response[t] = [status |-> 200, body |-> entry[t].value]
        /\ now > entry[t].value.fetchedAt
        /\ entry[t] \in cache

\* The parameters that decide the report of a request.
EffectiveParams(r) ==
    IF r.endpoint = "traffic"
    THEN <<StartDate(r), EndDate(r), Limit(r).val>>
    ELSE <<StartDate(r), EndDate(r), 0>>

\* C4: for one of the endpoints urls and traffic, two requests have the same
\* cache key if and only if their effective parameters (start_date,
\* end_date and, for traffic, limit) are the same, for all parameter strings.
C4_FingerprintInjective ==
    \A t, u \in Threads :
        (/\ pc[t] \notin {"idle", "done"}
         /\ pc[u] \notin {"idle", "done"}
         /\ req[t].endpoint = req[u].endpoint
         /\ req[t].endpoint \in {"urls", "traffic"})
        => ((cache_key[t] = cache_key[u])
              <=> (EffectiveParams(req[t]) = EffectiveParams(req[u])))

\* C5: with requests handled one after another, an upstream fetch for a key
\* under which a fetched payload was stored before is issued only when more
\* than the endpoint's ttl has passed since the set of that payload, the time
\* of a set being the clock that set_cached read (the fetch of that payload
\* was earlier still).
C5_OneFetchPerTtlWindow ==
    [][\A t \in Threads :
        (IsFetchStep(t) /\ lastSet[cache_key[t]] # None) =>
            now > lastSet[cache_key[t]].at + TtlOf(req[t].endpoint, CACHE_TTL)]_vars

\* C5 witness: a second fetch for a key has returned, one second after the
\* ttl window of the payload stored before had closed.
C5_Witness ==
    \E t \in Threads :
        /\ pc[t] = "build"
        /\ lastSet[cache_key[t]] # None
        /\ now = lastSet[cache_key[t]].at + lastSet[cache_key[t]].ttl + 1

\* C6 (as stated): when the upstream fetch raises, the request fails with an
\* error payload carrying the error's message and status 500, after exactly
\* one upstream call, and the request has not changed the dict.
C6_FailureLeavesCacheUnchanged ==
    \A t \in Threads :
        UpstreamFailed(t) =>
            /\ response[t] = [status |-> 500, body |-> [error |-> resp[t].raised]]
            /\ calls[t] = 1
            /\ effects[t] = {}

\* C6 (amended): when the upstream fetch raises, the request fails with an
\* error payload carrying the error's message and status 500, after exactly
\* one upstream call, and the request writes no entry; the only change it can
\* have made to the dict is that its lookup, having read an expired entry,
\* removed the entry under its own key.  The failing fetch itself leaves the
\* dict as it is.
C6_FailureWritesNothing ==
    /\ [](\A t \in Threads :
            UpstreamFailed(t) =>
                /\ response[t] = [status |-> 500, body |-> [error |-> resp[t].raised]]
                /\ calls[t] = 1
                /\ effects[t] \subseteq {"pop"}
                /\ effects[t] = {"pop"} =>
                      /\ entry[t] # None
                      /\ entry[t].key = cache_key[t]
                      /\ now > entry[t].expiry)
    /\ [][/\ cache' # cache =>
               \E t \in Threads : pc'[t] # pc[t] /\ effects'[t] # effects[t]
          /\ \A t \in Threads :
               (pc[t] = "fetch" /\ pc'[t] = "done") =>
                   (cache' = cache /\ lastSet' = lastSet)]_vars

\* C6 witness: a request whose lookup removed a stale entry failed upstream,
\* and the dict holds no entry for its key.
C6_Witness ==
    \E t \in Threads :
        /\ UpstreamFailed(t)
        /\ effects[t] = {"pop"}
        /\ EntriesOf(cache, cache_key[t]) = {}

\* Another request for the same key has missed and not stored yet.
Rival(t) ==
    \E u \in Threads \ {t} :
        /\ pc[u] \in {"fetch", "build", "set", "store"}
        /\ cache_key[u] = cache_key[t]

\* C7: requests for one key that all miss before any of them stores each make
\* their own upstream call and their own set, none waiting for another; each
\* answers with the payload it computed itself; every set replaces the entry
\* whatever it finds, so the dict holds the payload and the expiry (the clock
\* that set read, plus its ttl) of the set whose assignment ran last.
C7_ConcurrentMisses ==
    /\ [](/\ \A t \in Threads :
               /\ pc[t] \in {"build", "set", "store"} => calls[t] = 1
               /\ (pc[t] = "fetch" /\ Rival(t)) => ENABLED FetchOk(t)
               /\ (pc[t] = "set" /\ Rival(t)) => ENABLED StoreClock(t)
               /\ (pc[t] = "store" /\ Rival(t)) => ENABLED Store(t)
               /\ Computed(t) =>
                     /\ calls[t] = 1
                     /\ "set" \in effects[t]
                     /\ response[t] = [status |-> 200, body |-> out[t]]
                     /\ out[t] = Normalize(req[t].endpoint, resp[t].rows,
                                           out[t].fetchedAt)
          /\ \A e \in cache :
               /\ lastSet[e.key] # None
               /\ e.value = lastSet[e.key].value
               /\ e.expiry = lastSet[e.key].at + lastSet[e.key].ttl)
    /\ [][\A t \in Threads :
            /\ IsClockStep(t) => set_call'[t].at = now
            /\ IsStoreStep(t) =>
                /\ EntriesOf(cache', cache_key[t]) =
                      {[key |-> cache_key[t],
                        expiry |-> set_call[t].at
                                     + TtlOf(req[t].endpoint, CACHE_TTL),
                        value |-> out[t]]}
                /\ lastSet'[cache_key[t]].by = t]_vars

\* C7 witness: before the clock has moved at all, two requests for one key
\* have both fetched, stored and answered, with different payloads, and the
\* dict holds the payload of the one that stored last.
C7_Witness ==
    \E t, u \in Threads :
        /\ t # u
        /\ now = 0
        /\ Computed(t) /\ Computed(u)
        /\ cache_key[t] = cache_key[u]
        /\ response[t].body # response[u].body
        /\ lastSet[cache_key[t]].by = u
        /\ \E e \in cache : e.key = cache_key[u] /\ e.value = response[u].body

(***************************************************************************)
(* NormSpec: each normaliser applied to raw rows drawn from bounded sets:  *)
(* one row with any metric text of up to MaxLen characters, or up to       *)
(* MaxRows rows of a few shapes.                                           *)
(***************************************************************************)
MetricAlphabet == {"1", "2", "9", ".", "-", "a"}

ExampleTexts ==
    {<<"1", "2", ".", "9">>, <<"a", "b", "c">>, <<"5">>,
     <<"3", ".", "0">>, <<"2", ".", "5">>}

MetricTexts ==
    UNION {[1..n -> MetricAlphabet] : n \in 0..MaxLen} \cup ExampleTexts

WideRows ==
    {[dimension_values |-> <<"x">>, metric_values |-> mv] :
        mv \in {<<>>} \cup {<<s>> : s \in MetricTexts}}

SmallRows ==
    {[dimension_values |-> dv, metric_values |-> mv] :
        dv \in {<<>>, <<"x">>, <<"x", "y">>},
        mv \in {<<>>, <<<<"3", ".", "0">>>>, <<<<"2", ".", "5">>>>,
                <<<<"-", "5">>>>, <<<<"a", "b", "c">>>>}}

\* A long result, more rows than the limit of any realtime request; the
\* rows differ in their dimension value.
LongResult ==
    [i \in 1..ManyRows |->
        [dimension_values |-> <<ToString(i)>>, metric_values |-> <<<<"5">>>>]]

RawResults ==
    {<<r>> : r \in WideRows}
    \cup UNION {[1..n -> SmallRows] : n \in 0..MaxRows}
    \cup {LongResult}

NormInit ==
    /\ now = 0
    /\ ticks = 0
    /\ cache = {}
    /\ CACHE_TTL = DEFAULT_CACHE_TTL
    /\ op = [name |-> "none"]
    /\ lastSet = [k \in CacheSpecKeys |-> None]
    /\ ThreadsIdle
    /\ rawRows \in RawResults
    /\ normOut = None

NormApply(endpoint) ==
    /\ normOut = None
    /\ normOut' = [endpoint |-> endpoint, out |-> Normalize(endpoint, rawRows, now)]
    /\ UNCHANGED rawRows
    /\ UNCHANGED cacheVars
    /\ UNCHANGED threadVars

NormRealtimeActive == NormApply("realtime-active")

NormRealtimePages == NormApply("realtime-pages")

NormUrls == NormApply("urls")

NormTraffic == NormApply("traffic")

NormTopCountries == NormApply("top-countries")

NormNext ==
    \/ NormRealtimeActive
    \/ NormRealtimePages
    \/ NormUrls
    \/ NormTraffic
    \/ NormTopCountries

NormSpec == NormInit /\ [][NormNext]_vars

(***************************************************************************)
(* Claims about the normalisers, checked under NormSpec.                   *)
(***************************************************************************)
\* The integer a decimal text denotes once its fraction is dropped: the
\* digits before the point, with the sign; 0 for a text that is no decimal.
IsDecimalText(s) ==
    LET b == Unsigned(s) IN
    \E d \in 1..(Len(b) + 1) :
        /\ \A i \in 1..Len(b) : (i # d) => b[i] \in Digits
        /\ (d <= Len(b)) => b[d] = "."
        /\ Len(b) > (IF d <= Len(b) THEN 1 ELSE 0)

IntegerPart(s) ==
    LET b == Unsigned(s)
        n == Cardinality({i \in 1..Len(b) :
                             \A j \in 1..i : b[j] \in Digits})
        v == DigitsVal(SubSeq(b, 1, n))
    IN  IF s[1] = "-" THEN 0 - v ELSE v

ExpectedMetric(metric_values) ==
    IF metric_values = <<>> THEN 0
    ELSE IF IsDecimalText(metric_values[1]) THEN IntegerPart(metric_values[1])
    ELSE 0

\* The metric field of output row i of a row-shaped payload.
MetricField(endpoint, row) ==
    CASE endpoint \in {"realtime-pages", "top-countries"} -> row.activeUsers
      [] endpoint = "urls"    -> row.screenPageViews
      [] endpoint = "traffic" -> row.sessions

\* C10: in every handler the per-row metric coercion yields, for every raw
\* metric value, the number the text denotes truncated to an integer, and 0
\* when the value is absent or the text is no number; absent -> 0,
\* "12.9" -> 12, "abc" -> 0, "5" -> 5.  No input makes a normaliser fail.
C10_MetricCoercionTotal ==
    /\ CoerceMetric(<<>>) = 0
    /\ CoerceMetric(<<<<"1", "2", ".", "9">>>>) = 12
    /\ CoerceMetric(<<<<"a", "b", "c">>>>) = 0
    /\ CoerceMetric(<<<<"5">>>>) = 5
    /\ normOut # None =>
        IF normOut.endpoint = "realtime-active"
        THEN Len(rawRows) = 1 =>
                normOut.out.totalActive = ExpectedMetric(rawRows[1].metric_values)
        ELSE /\ Len(normOut.out.rows) = Len(rawRows)
             /\ \A i \in 1..Len(rawRows) :
                    MetricField(normOut.endpoint, normOut.out.rows[i])
                        = ExpectedMetric(rawRows[i].metric_values)

\* C10 witness: a handler has normalised a row whose metric text is a
\* decimal with a fraction, and the row carries its integer part.
C10_Witness ==
    /\ normOut # None
    /\ normOut.endpoint = "traffic"
    /\ rawRows = <<[dimension_values |-> <<"x">>,
                    metric_values |-> <<<<"1", "2", ".", "9">>>>]>>
    /\ normOut.out.rows[1].sessions = 12

\* Every metric field of a payload: totalActive, or the metric of each row.
MetricFields(endpoint, payload) ==
    IF endpoint = "realtime-active" THEN {payload.totalActive}
    ELSE {MetricField(endpoint, payload.rows[i]) : i \in 1..Len(payload.rows)}

\* C11: every metric field of every normalised row (activeUsers,
\* screenPageViews, sessions) and totalActive of every payload is a
\* non-negative integer, for every raw metric value, numeric text that
\* denotes a negative number included.
C11_MetricsNonNegative ==
    normOut # None =>
        \A v \in MetricFields(normOut.endpoint, normOut.out) : v \in Nat

\* The sum, from the first row on, of what each row's metric denotes.
RECURSIVE SumExpected(_)
SumExpected(rows) ==
    IF rows = <<>> THEN 0
    ELSE ExpectedMetric(Head(rows).metric_values) + SumExpected(Tail(rows))

\* C12: totalActive of realtime-active is the sum over all raw rows of the
\* coerced first metric value; a row whose metric is missing or no number
\* adds 0 and no rows at all give 0; rows "3.0", "2.5", missing give 5.
C12_TotalActiveIsSum ==
    (normOut # None /\ normOut.endpoint = "realtime-active") =>
        /\ normOut.out.totalActive = SumExpected(rawRows)
        /\ rawRows = <<>> => normOut.out.totalActive = 0
        /\ (/\ Len(rawRows) = 3
            /\ rawRows[1].metric_values = <<<<"3", ".", "0">>>>
            /\ rawRows[2].metric_values = <<<<"2", ".", "5">>>>
            /\ rawRows[3].metric_values = <<>>)
           => normOut.out.totalActive = 5

\* C12 witness: realtime-active has summed the rows "3.0", "2.5", missing.
C12_Witness ==
    /\ normOut # None
    /\ normOut.endpoint = "realtime-active"
    /\ Len(rawRows) = 3
    /\ rawRows[1].metric_values = <<<<"3", ".", "0">>>>
    /\ rawRows[2].metric_values = <<<<"2", ".", "5">>>>
    /\ rawRows[3].metric_values = <<>>
    /\ normOut.out.totalActive = 5

\* The dimension fields each row-shaped endpoint is to emit, in order.
DimensionNames(endpoint) ==
    CASE endpoint = "realtime-pages" -> <<"pageTitle">>
      [] endpoint = "urls"           -> <<"pageLocation">>
      [] endpoint = "traffic"        -> <<"source", "medium">>
      [] endpoint = "top-countries"  -> <<"country">>

MetricName(endpoint) ==
    CASE endpoint \in {"realtime-pages", "top-countries"} -> "activeUsers"
      [] endpoint = "urls"    -> "screenPageViews"
      [] endpoint = "traffic" -> "sessions"

RowEndpoints == {"realtime-pages", "urls", "traffic", "top-countries"}

\* C13: in every row-shaped endpoint, dimension position p of an output row
\* is the raw dimension value at position p when the raw row has one and
\* "(unknown)" otherwise, and no row makes the normaliser fail; a traffic row
\* with one dimension value gives {source: it, medium: "(unknown)", sessions:
\* the coerced metric}; a row with no dimension value gives "(unknown)" for
\* every dimension.
C13_DimensionFallback ==
    (normOut # None /\ normOut.endpoint \in RowEndpoints) =>
        LET names == DimensionNames(normOut.endpoint) IN
        /\ Len(normOut.out.rows) = Len(rawRows)
        /\ \A i \in 1..Len(rawRows) :
            LET raw == rawRows[i].dimension_values
                row == normOut.out.rows[i]
            IN  /\ DOMAIN row =
                      {names[p] : p \in 1..Len(names)}
                          \cup {MetricName(normOut.endpoint)}
                /\ \A p \in 1..Len(names) :
                      /\ p <= Len(raw) => row[names[p]] = raw[p]
                      /\ p > Len(raw) => row[names[p]] = "(unknown)"
                /\ (normOut.endpoint = "traffic" /\ Len(raw) = 1) =>
                      row = [source |-> raw[1], medium |-> "(unknown)",
                             sessions |-> ExpectedMetric(rawRows[i].metric_values)]

\* C13 witness: traffic has normalised a row with one dimension value and a
\* row with none.
C13_Witness ==
    /\ normOut # None
    /\ normOut.endpoint = "traffic"
    /\ Len(rawRows) = 2
    /\ rawRows[1].dimension_values = <<"x">>
    /\ rawRows[1].metric_values = <<<<"2", ".", "5">>>>
    /\ rawRows[2].dimension_values = <<>>
    /\ normOut.out.rows[1] = [source |-> "x", medium |-> "(unknown)", sessions |-> 2]
    /\ normOut.out.rows[2].source = "(unknown)"
    /\ normOut.out.rows[2].medium = "(unknown)"

\* What input row `raw` is to become in the payload of a row-shaped endpoint.
ExpectedRow(endpoint, raw) ==
    LET names == DimensionNames(endpoint)
        fields == {names[p] : p \in 1..Len(names)} \cup {MetricName(endpoint)}
    IN  [f \in fields |->
            IF f = MetricName(endpoint) THEN ExpectedMetric(raw.metric_values)
            ELSE LET p == CHOOSE q \in 1..Len(names) : names[q] = f IN
                 IF p <= Len(raw.dimension_values)
                 THEN raw.dimension_values[p] ELSE "(unknown)"]

\* C14: the row-shaped endpoints emit exactly one output row per raw row, in
\* the order of the input, nothing re-sorted and nothing cut off (60 raw rows
\* give 60 output rows); for urls and traffic rowCount is the number of rows
\* of the payload.
C14_OneRowPerInputRow ==
    (normOut # None /\ normOut.endpoint \in RowEndpoints) =>
        /\ Len(normOut.out.rows) = Len(rawRows)
        /\ \A i \in 1..Len(rawRows) :
              normOut.out.rows[i] = ExpectedRow(normOut.endpoint, rawRows[i])
        /\ normOut.endpoint \in {"urls", "traffic"} =>
              /\ normOut.out.rowCount = Len(normOut.out.rows)
              /\ normOut.out.rowCount = Len(rawRows)

\* C14 witness: urls has normalised the long result, one row for each of its
\* rows, the first and the last where they were.
C14_Witness ==
    /\ normOut # None
    /\ normOut.endpoint = "urls"
    /\ Len(rawRows) = ManyRows
    /\ Len(normOut.out.rows) = ManyRows
    /\ normOut.out.rowCount = ManyRows
    /\ normOut.out.rows[1].pageLocation = "1"
    /\ normOut.out.rows[ManyRows].pageLocation = ToString(ManyRows)

(***************************************************************************)
(* Further claims about the handlers, checked under Spec.                  *)
(***************************************************************************)
RealtimeEndpoints == {"realtime-active", "realtime-pages", "top-countries"}

HistoricalEndpoints == {"urls", "traffic"}

\* C15: every cache write of a realtime endpoint uses the default ttl and
\* every cache write of a historical endpoint uses a ttl longer than the one
\* the realtime endpoints use, whatever the default ttl is configured to be;
\* so a historical entry set at the same instant as a realtime entry never
\* expires before it.
C15_HistoricalTtlLonger ==
    /\ \A e \in cache :
        /\ lastSet[e.key].endpoint \in RealtimeEndpoints =>
              e.expiry = lastSet[e.key].at + CACHE_TTL
        /\ lastSet[e.key].endpoint \in HistoricalEndpoints =>
              e.expiry - lastSet[e.key].at > CACHE_TTL
    /\ \A h, r \in cache :
        (/\ lastSet[h.key].endpoint \in HistoricalEndpoints
         /\ lastSet[r.key].endpoint \in RealtimeEndpoints
         /\ lastSet[h.key].at = lastSet[r.key].at)
        => h.expiry >= r.expiry

\* A step in which thread t builds its payload and stamps fetchedAt.
IsBuildStep(t) == pc[t] = "build" /\ pc'[t] = "set"

\* C16: fetchedAt is stamped once, when the payload is computed after a
\* successful fetch; a stored payload is never altered (an entry stays as it
\* was set until a set on its key replaces it or it is removed); every hit
\* returns the payload of the entry it read, identical to what was stored,
\* with the fetchedAt it was stored with whatever the time of the read.
C16_FetchedAtFrozen ==
    /\ [](\A e \in cache :
            /\ e.value = lastSet[e.key].value
            /\ e.value.fetchedAt <= lastSet[e.key].at)
    /\ [][/\ \A e \in cache :
                \/ e \in cache'
                \/ EntriesOf(cache', e.key) = {}
                \/ \E t \in Threads : IsStoreStep(t) /\ cache_key[t] = e.key
          /\ \A t \in Threads :
                /\ IsBuildStep(t) => out'[t].fetchedAt = now
                /\ (pc[t] \in {"set", "store"} /\ pc'[t] \in {"set", "store"})
                      => out'[t] = out[t]
                /\ IsClockStep(t) => set_call'[t].value = out[t]
                /\ IsStoreStep(t) =>
                      /\ response'[t].body = out[t]
                      /\ \E e \in cache' : e.key = cache_key[t] /\ e.value = out[t]
                /\ IsHitStep(t) =>
                      /\ response'[t].body = entry[t].value
                      /\ response'[t].body.fetchedAt = entry[t].value.fetchedAt
                      /\ response'[t].body.fetchedAt <= now
                      /\ entry[t] \in cache =>
                            response'[t].body = lastSet[cache_key[t]].value]_vars

\* C16 witness: a hit of a realtime endpoint was served later than the
\* payload was stamped and stored, and carries the fetchedAt of the entry.
C16_Witness ==
    \E t \in Threads :
        /\ pc[t] = "done"
        /\ req[t].endpoint = "realtime-active"
        /\ calls[t] = 0
        /\ entry[t] # None
        /\ entry[t] \in cache
        /\ response[t].body = lastSet[cache_key[t]].value
        /\ response[t].body.fetchedAt = lastSet[cache_key[t]].at
        /\ now > lastSet[cache_key[t]].at

(***************************************************************************)
(* RaceSpec: get_cached and set_cached called from concurrent threads.     *)
(* A get is two steps, the read of the dict (line 42) and the rest         *)
(* (lines 43-49); a set is two steps, the evaluation of the tuple with the *)
(* clock it reads and the assignment (line 52); the dict operations        *)
(* themselves (cache.get, the assignment, cache.pop) are single steps of   *)
(* the interpreter.                                                        *)
(***************************************************************************)
\* entry = cache.get(key)
GetRead(t, key) ==
    /\ pc[t] = "idle"
    /\ started < MaxCalls
    /\ started' = started + 1
    /\ pc' = [pc EXCEPT ![t] = "lookup"]
    /\ cache_key' = [cache_key EXCEPT ![t] = key]
    /\ entry' = [entry EXCEPT ![t] = DictGet(cache, key)]
    /\ UNCHANGED <<set_call, req, resp, out, response, calls, effects>>
    /\ UNCHANGED cacheVars
    /\ UNCHANGED normVars

\* if not entry: .. if time.time() > expiry: cache.pop(key, None) .. return
GetCheck(t) ==
    /\ pc[t] = "lookup"
    /\ cache' = GetCachedCache(cache, cache_key[t], entry[t], now)
    /\ effects' = [effects EXCEPT ![t] =
                     IF entry[t] # None /\ IsStale(entry[t], now)
                     THEN @ \cup {IF EntriesOf(cache, cache_key[t]) = {}
                                  THEN "pop-absent" ELSE "pop"}
                     ELSE @]
    /\ response' = [response EXCEPT ![t] =
                      [ret |-> GetCachedValue(entry[t], now), at |-> now]]
    /\ pc' = [pc EXCEPT ![t] = "done"]
    /\ UNCHANGED <<now, ticks, CACHE_TTL, op, lastSet>>
    /\ UNCHANGED <<set_call, req, cache_key, entry, resp, out, calls, started>>
    /\ UNCHANGED normVars

\* set_cached(key, value, ttl) is called and time.time() + ttl is evaluated
\* (line 52, right-hand side); nothing is stored yet.
SetCall(t, key, value, ttl) ==
    /\ pc[t] = "idle"
    /\ started < MaxCalls
    /\ started' = started + 1
    /\ set_call' = [set_call EXCEPT ![t] =
                      [key |-> key, value |-> value, ttl |-> ttl, at |-> now]]
    /\ cache_key' = [cache_key EXCEPT ![t] = key]
    /\ pc' = [pc EXCEPT ![t] = "store"]
    /\ UNCHANGED <<req, entry, resp, out, response, calls, effects>>
    /\ UNCHANGED cacheVars
    /\ UNCHANGED normVars

\* cache[key] = (expiry, value) (line 52, the assignment).
SetStore(t) ==
    /\ pc[t] = "store"
    /\ LET c == set_call[t] IN
       /\ cache' = SetCachedCache(cache, c.key, c.value, c.ttl, c.at)
       /\ lastSet' = [lastSet EXCEPT ![c.key] =
                        [value |-> c.value, ttl |-> c.ttl, at |-> c.at,
                         by |-> t]]
    /\ effects' = [effects EXCEPT ![t] = @ \cup {"set"}]
    /\ pc' = [pc EXCEPT ![t] = "done"]
    /\ UNCHANGED <<now, ticks, CACHE_TTL, op>>
    /\ UNCHANGED <<set_call, req, cache_key, entry, resp, out, response, calls,
                   started>>
    /\ UNCHANGED normVars

\* A call is made on the first free thread.
FirstFree(t) == \A u \in Threads : u < t => pc[u] # "idle"

RaceGet ==
    \E t \in Threads, k \in CacheSpecKeys : FirstFree(t) /\ GetRead(t, k)

RaceCheck == \E t \in Threads : GetCheck(t)

RaceSet ==
    \E t \in Threads, k \in CacheSpecKeys, v \in CacheSpecValues,
       ttl \in CacheSpecTtls : FirstFree(t) /\ SetCall(t, k, v, ttl)

RaceStore == \E t \in Threads : SetStore(t)

RaceReturn == \E t \in Threads : Return(t)

RaceNext ==
    RaceGet \/ RaceCheck \/ RaceSet \/ RaceStore \/ RaceReturn \/ Tick

RaceSpec == CacheInit /\ [][RaceNext]_vars

\* Entry e is what one set_cached wrote: the last one on its key.
WholeFromLastSet(e) ==
    /\ lastSet[e.key] # None
    /\ e.value = lastSet[e.key].value
    /\ e.expiry = lastSet[e.key].at + lastSet[e.key].ttl

\* C17: under any interleaving of get_cached and set_cached calls of
\* concurrent threads, the dict holds for a key only an entry written whole
\* by one set (its value with that set's expiry); a get reads such an entry
\* or none, what it holds is not altered by later sets, and it returns absent
\* or the value of the entry it read, judged by the expiry of that same entry;
\* the removal of a stale entry goes through also when another thread has
\* removed or replaced the entry meanwhile: the get cannot fail.
C17_SetAtomicPerKey ==
    /\ [](UniqueKeys /\ \A e \in cache : WholeFromLastSet(e))
    /\ [](\A t \in Threads : pc[t] = "lookup" => ENABLED GetCheck(t))
    /\ [][\A t \in Threads :
            /\ IsReadStep(t) =>
                  \/ entry'[t] = None /\ EntriesOf(cache, cache_key'[t]) = {}
                  \/ /\ entry'[t] \in cache
                     /\ entry'[t].key = cache_key'[t]
                     /\ WholeFromLastSet(entry'[t])
            /\ (pc[t] = "lookup" /\ pc'[t] = "lookup") => entry'[t] = entry[t]
            /\ IsHitStep(t) =>
                  /\ DOMAIN response'[t] = {"ret", "at"}
                  /\ entry[t] = None => response'[t].ret = None
                  /\ entry[t] # None =>
                        /\ (response'[t].ret = None) <=> (now > entry[t].expiry)
                        /\ response'[t].ret # None =>
                              response'[t].ret = entry[t].value
                        /\ now > entry[t].expiry =>
                              EntriesOf(cache', cache_key[t]) = {}]_vars

\* C17 witness: a get that read an entry returned that entry's value, judged
\* by that entry's expiry, after another thread's set had replaced the entry
\* by one with another value and another expiry.
C17_Witness ==
    \E t \in Threads :
        /\ pc[t] = "done"
        /\ "ret" \in DOMAIN response[t]
        /\ entry[t] # None
        /\ response[t].ret = entry[t].value
        /\ response[t].at > lastSet[cache_key[t]].at
        /\ lastSet[cache_key[t]].by # t
        /\ \E e \in cache :
              /\ e.key = cache_key[t]
              /\ e.value # entry[t].value
              /\ e.expiry # entry[t].expiry

\* A get found its entry stale after another thread had removed it already,
\* and returned absent.
C17_PopOfAbsentKey ==
    \E t \in Threads :
        /\ pc[t] = "done"
        /\ "pop-absent" \in effects[t]
        /\ response[t].ret = None

\* Entry e, as a thread read it, is present and unexpired at time t.
Live(e, t) == e # None /\ t <= e.expiry

\* C18: every payload a handler stores is a non-empty mapping (it carries
\* fetchedAt, also when totalActive is 0 or rows is empty), so a handler whose
\* lookup read a present, unexpired entry answers from it and never goes on
\* to fetch: a request is fetching only if it read no entry or an expired one.
C18_LiveEntryIsHit ==
    /\ [](\A e \in cache :
            /\ DOMAIN e.value # {}
            /\ "fetchedAt" \in DOMAIN e.value)
    /\ [](\A t \in Threads :
            pc[t] \in {"fetch", "build", "set", "store"} =>
                ~Live(entry[t], now))
    /\ [][\A t \in Threads :
            (pc[t] = "lookup" /\ pc'[t] # "lookup" /\ Live(entry[t], now)) =>
                /\ pc'[t] = "done"
                /\ calls'[t] = 0
                /\ response'[t] = [status |-> 200, body |-> entry[t].value]]_vars

\* C18 witness: a request was answered from a live entry whose payload says
\* totalActive = 0, without an upstream call.
C18_Witness ==
    \E t \in Threads :
        /\ pc[t] = "done"
        /\ req[t].endpoint = "realtime-active"
        /\ calls[t] = 0
        /\ Live(entry[t], now)
        /\ entry[t].value.totalActive = 0
        /\ response[t] = [status |-> 200, body |-> entry[t].value]

\* Parameter strings a caller may send to get at another endpoint's keys.
KeyTexts ==
    {<<>>, <<"">>, <<"a">>, <<":">>, <<"urls">>, <<"traffic">>,
     <<"today:100">>, <<"7daysAgo:today">>, <<"realtime-active">>}

KeyLimits == {<<>>, <<<<"1">>>>, <<<<"1", "0", "0">>>>}

KeyRequests ==
    {[endpoint |-> e, args |-> NoArgs] : e \in RealtimeEndpoints}
    \cup {[endpoint |-> e,
           args |-> [start_date |-> s, end_date |-> d, limit |-> l]] :
             e \in HistoricalEndpoints,
             s \in KeyTexts, d \in KeyTexts, l \in KeyLimits}

\* No two requests of different endpoints have the same cache key.
KeysDisjoint(requests) ==
    \A r1, r2 \in requests :
        CacheKey(r1) = CacheKey(r2) => r1.endpoint = r2.endpoint

KeyRequestsDisjoint == KeysDisjoint(KeyRequests)

ModelRequestsDisjoint == KeysDisjoint({r \in Requests : ~Limit(r).raised})

\* The payload has the fields of the endpoint, and so has each of its rows.
HasShapeOf(endpoint, payload) ==
    IF endpoint = "realtime-active"
    THEN DOMAIN payload = {"totalActive", "fetchedAt"}
    ELSE /\ DOMAIN payload =
               IF endpoint \in HistoricalEndpoints
               THEN {"rows", "rowCount", "fetchedAt"} ELSE {"rows", "fetchedAt"}
         /\ \A i \in 1..Len(payload.rows) :
               DOMAIN payload.rows[i] =
                   {DimensionNames(endpoint)[p] :
                        p \in 1..Len(DimensionNames(endpoint))}
                       \cup {MetricName(endpoint)}

\* C19: the cache keys of the five endpoints never coincide, whatever the
\* caller sends; so every entry of the dict was written by the endpoint whose
\* requests read it, and every request answered with a payload gets a payload
\* of its own endpoint's shape.
C19_NamespacesDisjoint ==
    /\ KeyRequestsDisjoint
    /\ ModelRequestsDisjoint
    /\ \A e \in cache :
          /\ HasShapeOf(lastSet[e.key].endpoint, e.value)
          /\ \A t \in Threads :
                (pc[t] # "idle" /\ cache_key[t] = e.key) =>
                    req[t].endpoint = lastSet[e.key].endpoint
    /\ \A t \in Threads :
          (pc[t] = "done" /\ response[t].status = 200) =>
              HasShapeOf(req[t].endpoint, response[t].body)

\* C19 witness: the dict holds an entry of realtime-pages and an entry of
\* top-countries, each with a row of its own endpoint's shape, and both
\* requests were answered with their own payload.
C19_Witness ==
    /\ \E e \in cache :
          /\ e.key = "realtime-pages"
          /\ Len(e.value.rows) = 1
          /\ "pageTitle" \in DOMAIN e.value.rows[1]
    /\ \E e \in cache :
          /\ e.key = "top-countries"
          /\ Len(e.value.rows) = 1
          /\ "country" \in DOMAIN e.value.rows[1]
    /\ \E t \in Threads :
          /\ pc[t] = "done"
          /\ req[t].endpoint = "top-countries"
          /\ response[t].status = 200
          /\ "country" \in DOMAIN response[t].body.rows[1]

\* C20: under any interleaving of concurrent requests, whenever a set
\* replaces the entry of a key, the fetchedAt of the new payload is not
\* earlier than the fetchedAt of the payload it replaces: the dict never
\* exchanges newer data for older.
C20_FreshnessMonotone ==
    [][\A t \in Threads :
        IsStoreStep(t) =>
            \A e \in EntriesOf(cache, cache_key[t]) :
                out[t].fetchedAt >= e.value.fetchedAt]_vars

====
